---------------------------- MODULE Spec2Model ----------------------------
(***************************************************************************)
(* A model of the binary search tree of package bst (BasicBST): the node   *)
(* heap with parent and child pointers, Get, Insert, which, next/Next/Prev,*)
(* Delete, the recursive Visit and the two goroutine streams Keys and      *)
(* Check built on it.                                                      *)
(*                                                                         *)
(* Nodes live in a heap indexed by allocation order; a pointer is a heap   *)
(* index and Nil is the nil pointer.  A node detached by Delete stays in   *)
(* the heap (a handle may still point to it), exactly as a Go object stays *)
(* alive while it is referenced.                                           *)
(***************************************************************************)
EXTENDS Integers, Sequences, FiniteSets, TLC

\* ------------------------------------------------------------ bounds
MaxKey == 4
MaxVal == 2
MaxNodes == 4
MaxDeletes == 2
MaxErr == 2

Keys == 1..MaxKey
Vals == 1..MaxVal

\* the keys and the node count of the deeper trees of DoInsertDeep
DeepKeys == 1..(MaxKey + 1)
DeepNodes == MaxNodes + 1

\* ------------------------------------------------------------ the node heap
lo == 0
hi == 1
Nil == 0
NoKey == 0
NoSide == -1

Sides == {lo, hi}

VARIABLES
  heap,        \* Seq of nodes [Key, Value, Parent, Child]; heap[sentinel] is the sentinel
  handle,      \* the *BasicBST the caller holds (from Get, Next or Prev), or Nil
  hsrc,        \* where the handle is from: "get" (Get), "next", "prev", or
               \* "deleted" (Delete has been invoked on it)
  fault,       \* a runtime panic has ended the program
  nDel,        \* history: how many times Delete has been invoked
  misused,     \* history: Delete was invoked on a handle that did not come from Get
  shadow,      \* history: while nDel = 0, the value last inserted per key (0: never)
  skind,       \* the running stream: "none", "Keys" or "Check"
  ppc,         \* the producer goroutine: "idle", "run", "select", "done" (channel closed)
  stack,       \* the producer's Visit call stack: frames [n, pc]
  cancelled,   \* ctx.Done() is closed
  cancelAt,    \* history: how many elements the consumer had received at cancel()
  received,    \* what the consumer has received from the channel, in order
  vres         \* the caller's own Visit call: its callback (which node it fails at, with
               \* which error), the nodes it was called on, and what Visit returned

treeVars == <<heap, handle, hsrc, fault, nDel, misused, shadow>>
streamVars == <<skind, ppc, stack, cancelled, cancelAt, received>>
vars == <<heap, handle, hsrc, fault, nDel, misused, shadow,
          skind, ppc, stack, cancelled, cancelAt, received, vres>>

sentinel == 1

\* NewBasic: a node whose Parent is itself, no key, no children.
NewBasic ==
  <<[Key |-> NoKey, Value |-> 0, Parent |-> sentinel,
     Child |-> [s \in Sides |-> Nil]]>>

\* &BasicBST{Key: k, Value: v, Parent: p}
NewNode(k, v, p) ==
  [Key |-> k, Value |-> v, Parent |-> p, Child |-> [s \in Sides |-> Nil]]

IsSentinel(h, n) == n # Nil /\ h[n].Parent = n

\* KeyType.Less of the test's iKey
Less(a, b) == a < b

\* ------------------------------------------------------------ Get
RECURSIVE Get(_, _, _)
Get(h, n, k) ==
  IF n = Nil THEN Nil
  ELSE IF IsSentinel(h, n) \/ Less(k, h[n].Key) THEN Get(h, h[n].Child[lo], k)
  ELSE IF Less(h[n].Key, k) THEN Get(h, h[n].Child[hi], k)
  ELSE n

\* ------------------------------------------------------------ Insert
\* The heap after n.Insert(k, v); a new node takes the next heap index.
RECURSIVE Insert(_, _, _, _)

\* Insert without the overwrite of an existing key's value (a mutant of Insert).
InsertNoOverwrite(h, n, k, v) ==
  IF IsSentinel(h, n) \/ Less(k, h[n].Key)
  THEN IF h[n].Child[lo] = Nil
       THEN Append([h EXCEPT ![n].Child[lo] = Len(h) + 1], NewNode(k, v, n))
       ELSE Insert(h, h[n].Child[lo], k, v)
  ELSE IF Less(h[n].Key, k)
  THEN IF h[n].Child[hi] = Nil
       THEN Append([h EXCEPT ![n].Child[hi] = Len(h) + 1], NewNode(k, v, n))
       ELSE Insert(h, h[n].Child[hi], k, v)
  ELSE h

\* Insert sending a key equal to the node's key down the hi side, as if the second case
\* were !k.Less(n.Key) (a mutant of Insert).
InsertEqualGoesHi(h, n, k, v) ==
  IF IsSentinel(h, n) \/ Less(k, h[n].Key)
  THEN IF h[n].Child[lo] = Nil
       THEN Append([h EXCEPT ![n].Child[lo] = Len(h) + 1], NewNode(k, v, n))
       ELSE Insert(h, h[n].Child[lo], k, v)
  ELSE IF h[n].Child[hi] = Nil
       THEN Append([h EXCEPT ![n].Child[hi] = Len(h) + 1], NewNode(k, v, n))
       ELSE Insert(h, h[n].Child[hi], k, v)

Insert(h, n, k, v) ==
  IF IsSentinel(h, n) \/ Less(k, h[n].Key)
  THEN IF h[n].Child[lo] = Nil
       THEN Append([h EXCEPT ![n].Child[lo] = Len(h) + 1], NewNode(k, v, n))
       ELSE Insert(h, h[n].Child[lo], k, v)
  ELSE IF Less(h[n].Key, k)
  THEN IF h[n].Child[hi] = Nil
       THEN Append([h EXCEPT ![n].Child[hi] = Len(h) + 1], NewNode(k, v, n))
       ELSE Insert(h, h[n].Child[hi], k, v)
  ELSE [h EXCEPT ![n].Value = v]

\* ------------------------------------------------------------ which, next
which(h, n) ==
  LET p == h[n].Parent
  IN  IF n = h[p].Child[lo] THEN lo
      ELSE IF n = h[p].Child[hi] THEN hi
      ELSE NoSide

opposite(d) == (d + 1) % 2

\* for cur.Child[r] != nil { cur = cur.Child[r] }
RECURSIVE Descend(_, _, _)
Descend(h, cur, r) ==
  IF h[cur].Child[r] # Nil THEN Descend(h, h[cur].Child[r], r) ELSE cur

\* for cur.which() == d { cur = cur.Parent }
RECURSIVE Ascend(_, _, _)
Ascend(h, cur, d) ==
  IF which(h, cur) = d THEN Ascend(h, h[cur].Parent, d) ELSE cur

\* next returning cur.Parent without the test for the sentinel (a mutant of next).
nextNoSentinelTest(h, n, d) ==
  LET r == opposite(d)
  IN  IF h[n].Child[d] # Nil THEN Descend(h, h[n].Child[d], r)
      ELSE h[Ascend(h, n, d)].Parent

next(h, n, d) ==
  LET r == opposite(d)
  IN  IF h[n].Child[d] # Nil THEN Descend(h, h[n].Child[d], r)
      ELSE LET cur == Ascend(h, n, d)
           IN  IF IsSentinel(h, h[cur].Parent) THEN Nil ELSE h[cur].Parent

\* Next without the walk up through hi-side ancestors (a mutant of BasicNext).
BasicNextNoAscend(h, n) ==
  IF h[n].Child[hi] # Nil THEN Descend(h, h[n].Child[hi], lo)
  ELSE IF IsSentinel(h, h[n].Parent) THEN Nil ELSE h[n].Parent

\* basic.go's Next, written out for direction hi with Which
BasicNext(h, n) ==
  IF h[n].Child[hi] # Nil THEN Descend(h, h[n].Child[hi], lo)
  ELSE LET cur == Ascend(h, n, hi)
       IN  IF IsSentinel(h, h[cur].Parent) THEN Nil ELSE h[cur].Parent

\* part_000's Next and Prev
Next(h, n) == next(h, n, hi)

Prev(h, n) == next(h, n, lo)

\* ------------------------------------------------------------ Delete
\* The relink always writing the parent's lo slot, as if which() were not consulted for
\* the index (a mutant of Relink).
RelinkLoSlot(h, n, c) ==
  LET w == which(h, n)
  IN  IF w = NoSide THEN [heap |-> h, fault |-> TRUE]
      ELSE [heap |-> [h EXCEPT ![h[n].Parent].Child[lo] = c], fault |-> FALSE]

\* n.Parent.Child[n.which()] = c; indexing Child with -1 panics and writes nothing.
Relink(h, n, c) ==
  LET w == which(h, n)
  IN  IF w = NoSide THEN [heap |-> h, fault |-> TRUE]
      ELSE [heap |-> [h EXCEPT ![h[n].Parent].Child[w] = c], fault |-> FALSE]

\* The heap after n.Delete(), and whether it panicked.
RECURSIVE Delete(_, _)

\* Delete taking the hi child itself as the successor, without the descent to its
\* leftmost node (a mutant of Delete).
DeleteNoDescend(h, n) ==
  IF IsSentinel(h, n) THEN [heap |-> h, fault |-> FALSE]
  ELSE IF n = Nil THEN [heap |-> h, fault |-> FALSE]
  ELSE IF h[n].Child[hi] = Nil THEN Relink(h, n, h[n].Child[lo])
  ELSE IF h[n].Child[lo] = Nil THEN Relink(h, n, h[n].Child[hi])
  ELSE LET cur == h[n].Child[hi]
       IN  Delete([h EXCEPT ![n].Key = h[cur].Key, ![n].Value = h[cur].Value], cur)

\* Delete without the case for the sentinel (a mutant of Delete).
DeleteNoSentinelCase(h, n) ==
  IF n = Nil THEN [heap |-> h, fault |-> FALSE]
  ELSE IF h[n].Child[hi] = Nil THEN Relink(h, n, h[n].Child[lo])
  ELSE IF h[n].Child[lo] = Nil THEN Relink(h, n, h[n].Child[hi])
  ELSE LET cur == Descend(h, h[n].Child[hi], lo)
       IN  Delete([h EXCEPT ![n].Key = h[cur].Key, ![n].Value = h[cur].Value], cur)

Delete(h, n) ==
  IF IsSentinel(h, n) THEN [heap |-> h, fault |-> FALSE]
  ELSE IF n = Nil THEN [heap |-> h, fault |-> FALSE]
  ELSE IF h[n].Child[hi] = Nil THEN Relink(h, n, h[n].Child[lo])
  ELSE IF h[n].Child[lo] = Nil THEN Relink(h, n, h[n].Child[hi])
  ELSE LET cur == Descend(h, h[n].Child[hi], lo)
       IN  Delete([h EXCEPT ![n].Key = h[cur].Key, ![n].Value = h[cur].Value], cur)

\* ------------------------------------------------------------ Visit, as its caller sees it
\* the nil error, and the errors a callback may return
NoErr == 0
Errs == 1..MaxErr

\* The callback f of a direct Visit call records the node it is called on and returns
\* the error e at node at, nil at every other node.  VisitFrom is n.Visit(f): the nodes
\* f was called on, in order, and the error Visit returns.
RECURSIVE VisitFrom(_, _, _, _)

\* Visit going on to f(n) and the hi child although the Visit of the lo child returned
\* an error (a mutant of VisitFrom).
VisitDropsLoError(h, n, at, e) ==
  IF n = Nil THEN [calls |-> <<>>, err |-> NoErr]
  ELSE IF IsSentinel(h, n) THEN VisitFrom(h, h[n].Child[lo], at, e)
  ELSE LET l == IF h[n].Child[lo] # Nil THEN VisitFrom(h, h[n].Child[lo], at, e)
                ELSE [calls |-> <<>>, err |-> NoErr]
           fe == IF n = at THEN e ELSE NoErr
           r == IF h[n].Child[hi] # Nil THEN VisitFrom(h, h[n].Child[hi], at, e)
                ELSE [calls |-> <<>>, err |-> NoErr]
       IN  IF fe # NoErr THEN [calls |-> Append(l.calls, n), err |-> fe]
           ELSE [calls |-> Append(l.calls, n) \o r.calls, err |-> r.err]

VisitFrom(h, n, at, e) ==
  IF n = Nil THEN [calls |-> <<>>, err |-> NoErr]
  ELSE IF IsSentinel(h, n) THEN VisitFrom(h, h[n].Child[lo], at, e)
  ELSE LET l == IF h[n].Child[lo] # Nil THEN VisitFrom(h, h[n].Child[lo], at, e)
                ELSE [calls |-> <<>>, err |-> NoErr]
           fe == IF n = at THEN e ELSE NoErr
           r == IF h[n].Child[hi] # Nil THEN VisitFrom(h, h[n].Child[hi], at, e)
                ELSE [calls |-> <<>>, err |-> NoErr]
       IN  IF l.err # NoErr THEN l
           ELSE IF fe # NoErr THEN [calls |-> Append(l.calls, n), err |-> fe]
           ELSE [calls |-> Append(l.calls, n) \o r.calls, err |-> r.err]

\* no Visit call of the caller's own is under inspection
NoVisit == [called |-> FALSE, at |-> Nil, e |-> NoErr, calls |-> <<>>, err |-> NoErr]

\* ------------------------------------------------------------ initial state
Init ==
  /\ heap = NewBasic
  /\ handle = Nil
  /\ hsrc = "get"
  /\ fault = FALSE
  /\ nDel = 0
  /\ misused = FALSE
  /\ shadow = [k \in Keys |-> 0]
  /\ skind = "none"
  /\ ppc = "idle"
  /\ stack = <<>>
  /\ cancelled = FALSE
  /\ cancelAt = 0
  /\ received = <<>>
  /\ vres = NoVisit

\* The tree is used by its single owner while no stream goroutine is reading it.  The
\* model follows the program up to a panic and up to the first Delete on a stale handle.
Quiet == ~fault /\ ~misused /\ skind = "none"

\* ------------------------------------------------------------ tree operations
\* s.Insert(k, v) on the sentinel
DoInsert(k, v) ==
  /\ Quiet
  /\ Get(heap, sentinel, k) # Nil \/ Len(heap) <= MaxNodes
  /\ heap' = Insert(heap, sentinel, k, v)
  /\ shadow' = IF nDel = 0 THEN [shadow EXCEPT ![k] = v] ELSE shadow
  /\ UNCHANGED <<handle, hsrc, fault, nDel, misused>>
  /\ UNCHANGED streamVars
  /\ UNCHANGED vres

\* handle := s.Get(k)
DoGet(k) ==
  /\ Quiet
  /\ handle' = Get(heap, sentinel, k)
  /\ hsrc' = "get"
  /\ UNCHANGED <<heap, fault, nDel, misused, shadow>>
  /\ UNCHANGED streamVars
  /\ UNCHANGED vres

\* handle.Delete()
DoDelete ==
  /\ Quiet
  /\ nDel < MaxDeletes
  /\ LET r == Delete(heap, handle)
     IN  /\ heap' = r.heap
         /\ fault' = r.fault
  /\ hsrc' = "deleted"
  /\ misused' = (misused \/ (handle # Nil /\ hsrc # "get"))
  /\ nDel' = nDel + 1
  /\ shadow' = [k \in Keys |-> 0]
  /\ UNCHANGED handle
  /\ UNCHANGED streamVars
  /\ UNCHANGED vres

\* handle = handle.Next()
DoNext ==
  /\ Quiet
  /\ handle # Nil
  /\ handle' = BasicNext(heap, handle)
  /\ hsrc' = "next"
  /\ UNCHANGED <<heap, fault, nDel, misused, shadow>>
  /\ UNCHANGED streamVars
  /\ UNCHANGED vres

\* handle = handle.Prev()
DoPrev ==
  /\ Quiet
  /\ handle # Nil
  /\ handle' = Prev(heap, handle)
  /\ hsrc' = "prev"
  /\ UNCHANGED <<heap, fault, nDel, misused, shadow>>
  /\ UNCHANGED streamVars
  /\ UNCHANGED vres

\* s.Get(k).Delete(), the call pair of the Delete test
DoGetDelete(k) ==
  /\ Quiet
  /\ nDel < MaxDeletes
  /\ LET r == Delete(heap, Get(heap, sentinel, k))
     IN  /\ heap' = r.heap
         /\ fault' = r.fault
  /\ nDel' = nDel + 1
  /\ shadow' = [x \in Keys |-> 0]
  /\ UNCHANGED <<handle, hsrc, misused>>
  /\ UNCHANGED streamVars
  /\ UNCHANGED vres

\* s.Delete() on the tree itself: the handle is the sentinel
DoDeleteTree ==
  /\ Quiet
  /\ nDel < MaxDeletes
  /\ LET r == Delete(heap, sentinel)
     IN  /\ heap' = r.heap
         /\ fault' = r.fault
  /\ handle' = sentinel
  /\ hsrc' = "deleted"
  /\ nDel' = nDel + 1
  /\ shadow' = [k \in Keys |-> 0]
  /\ UNCHANGED misused
  /\ UNCHANGED streamVars
  /\ UNCHANGED vres

\* s.Insert(k, -k) with one more key and one more node than DoInsert allows: Check's
\* comparisons span one level, and a tree of five nodes is the smallest in which Delete
\* acts two levels apart
DoInsertDeep(k) ==
  /\ Quiet
  /\ Get(heap, sentinel, k) # Nil \/ Len(heap) <= DeepNodes
  /\ heap' = Insert(heap, sentinel, k, -k)
  /\ shadow' = IF nDel = 0 THEN [x \in Keys |-> IF x = k THEN -k ELSE shadow[x]]
                ELSE shadow
  /\ UNCHANGED <<handle, hsrc, fault, nDel, misused>>
  /\ UNCHANGED streamVars
  /\ UNCHANGED vres

\* err := s.Visit(f), with a callback that fails with error e at node at (one that is
\* never reached when at is nil or the sentinel)
DoVisit(at, e) ==
  /\ Quiet
  /\ ~vres.called
  /\ at \in 0..Len(heap)
  /\ LET r == VisitFrom(heap, sentinel, at, e)
     IN  vres' = [called |-> TRUE, at |-> at, e |-> e, calls |-> r.calls, err |-> r.err]
  /\ UNCHANGED treeVars
  /\ UNCHANGED streamVars

\* The caller is done with the result of its Visit call.
DropVisit ==
  /\ vres.called
  /\ vres' = NoVisit
  /\ UNCHANGED treeVars
  /\ UNCHANGED streamVars

\* ------------------------------------------------------------ Visit
Frame(n, pc) == [n |-> n, pc |-> pc]

\* Check's callback: badLo || badHi
Bad(h, n) ==
  LET l == h[n].Child[lo]
      r == h[n].Child[hi]
      badLo == l # Nil /\ ~Less(h[l].Key, h[n].Key)
      badHi == r # Nil /\ ~Less(h[n].Key, h[r].Key)
  IN  badLo \/ badHi

\* Whether the callback of the stream reaches its select statement at node n.
AtSelect(h, n, kind) == IF kind = "Keys" THEN TRUE ELSE Bad(h, n)

\* What the callback offers on the channel at node n.
Item(h, n, kind) == IF kind = "Keys" THEN h[n].Key ELSE n

\* One step of the recursive Visit on its call stack st (the top frame is last).  A
\* frame is at "enter" (the call), "self" (f(n) is next), "hi" (f(n) returned nil) or
\* "exit" (the Visit of the hi child, or of the sentinel's lo child, is running and
\* its result is returned).  The callback's return is the caller's step: see Handoff.

\* Visit descending into the hi child before the callback and into the lo child after
\* it (a mutant of Visit).
VisitHiFirst(h, st) ==
  LET top == st[Len(st)]
      rest == SubSeq(st, 1, Len(st) - 1)
      n == top.n
  IN  IF top.pc = "enter"
      THEN IF n = Nil THEN rest
           ELSE IF IsSentinel(h, n)
           THEN rest \o <<Frame(n, "exit"), Frame(h[n].Child[lo], "enter")>>
           ELSE IF h[n].Child[hi] # Nil
           THEN rest \o <<Frame(n, "self"), Frame(h[n].Child[hi], "enter")>>
           ELSE Append(rest, Frame(n, "self"))
      ELSE IF top.pc = "self"
      THEN Append(rest, Frame(n, "hi"))
      ELSE IF top.pc = "hi"
      THEN IF h[n].Child[lo] # Nil
           THEN rest \o <<Frame(n, "exit"), Frame(h[n].Child[lo], "enter")>>
           ELSE rest
      ELSE rest

Visit(h, st) ==
  LET top == st[Len(st)]
      rest == SubSeq(st, 1, Len(st) - 1)
      n == top.n
  IN  IF top.pc = "enter"
      THEN IF n = Nil THEN rest
           ELSE IF IsSentinel(h, n)
           THEN rest \o <<Frame(n, "exit"), Frame(h[n].Child[lo], "enter")>>
           ELSE IF h[n].Child[lo] # Nil
           THEN rest \o <<Frame(n, "self"), Frame(h[n].Child[lo], "enter")>>
           ELSE Append(rest, Frame(n, "self"))
      ELSE IF top.pc = "self"
      THEN Append(rest, Frame(n, "hi"))
      ELSE IF top.pc = "hi"
      THEN IF h[n].Child[hi] # Nil
           THEN rest \o <<Frame(n, "exit"), Frame(h[n].Child[hi], "enter")>>
           ELSE rest
      ELSE rest

\* ------------------------------------------------------------ Keys and Check
\* s.Keys(ctx) / s.Check(ctx): make the channel and start the goroutine
Start(kind) ==
  /\ Quiet
  /\ skind' = kind
  /\ ppc' = "run"
  /\ stack' = <<Frame(sentinel, "enter")>>
  /\ received' = <<>>
  /\ UNCHANGED <<cancelled, cancelAt>>
  /\ UNCHANGED treeVars
  /\ UNCHANGED vres

StartKeys == Start("Keys")

StartCheck == Start("Check")

\* The goroutine takes one step: the deferred close(channel) once the outermost Visit
\* has returned, the callback's arrival at its select, or a step of Visit (for Check,
\* a callback that finds nothing bad returns nil at once).
ProducerRun ==
  /\ ppc = "run"
  /\ IF stack = <<>>
     THEN ppc' = "done" /\ UNCHANGED stack
     ELSE IF stack[Len(stack)].pc = "self" /\ AtSelect(heap, stack[Len(stack)].n, skind)
     THEN ppc' = "select" /\ UNCHANGED stack
     ELSE ppc' = "run" /\ stack' = Visit(heap, stack)
  /\ UNCHANGED <<skind, cancelled, cancelAt, received>>
  /\ UNCHANGED treeVars
  /\ UNCHANGED vres

\* select case "channel <- item": the consumer receives, the callback returns nil.
Handoff ==
  /\ ppc = "select"
  /\ received' = Append(received, Item(heap, stack[Len(stack)].n, skind))
  /\ stack' = Visit(heap, stack)
  /\ ppc' = "run"
  /\ UNCHANGED <<skind, cancelled, cancelAt>>
  /\ UNCHANGED treeVars
  /\ UNCHANGED vres

\* The callback with a plain send in place of the select: the producer never takes the
\* ctx.Done() case (a mutant of ObserveCancel).
PlainSend ==
  /\ ppc = "select"
  /\ cancelled
  /\ FALSE
  /\ UNCHANGED vars

\* select case "<-ctx.Done()": the callback returns ctx.Err() and every Visit on the
\* stack returns it.
ObserveCancel ==
  /\ ppc = "select"
  /\ cancelled
  /\ stack' = <<>>
  /\ ppc' = "done"
  /\ UNCHANGED <<skind, cancelled, cancelAt, received>>
  /\ UNCHANGED treeVars
  /\ UNCHANGED vres

\* cancel()
Cancel ==
  /\ skind # "none"
  /\ ~cancelled
  /\ cancelled' = TRUE
  /\ cancelAt' = Len(received)
  /\ UNCHANGED <<skind, ppc, stack, received>>
  /\ UNCHANGED treeVars
  /\ UNCHANGED vres

\* The consumer's range loop has ended on the closed channel; the next stream gets a
\* new channel and context.
Finish ==
  /\ ppc = "done"
  /\ skind' = "none"
  /\ ppc' = "idle"
  /\ received' = <<>>
  /\ cancelled' = FALSE
  /\ cancelAt' = 0
  /\ UNCHANGED stack
  /\ UNCHANGED treeVars
  /\ UNCHANGED vres

\* ------------------------------------------------------------ specifications
TreeStep ==
  \/ \E k \in Keys, v \in Vals : DoInsert(k, v)
  \/ \E k \in Keys : DoGet(k)
  \/ DoDelete
  \/ DoNext
  \/ DoPrev

Spec == Init /\ [][TreeStep]_vars

\* Trees built by Inserts alone, and Get on them.
InsertStep ==
  \/ \E k \in Keys, v \in Vals : DoInsert(k, v)
  \/ \E k \in Keys : DoGet(k)

InsertSpec == Init /\ [][InsertStep]_vars

\* Trees built by Inserts alone, where the first Insert of a key carries the value 1 and
\* an Insert of a key already present carries any value.
UpsertStep ==
  \/ \E k \in Keys : Get(heap, sentinel, k) = Nil /\ DoInsert(k, 1)
  \/ \E k \in Keys, v \in Vals : Get(heap, sentinel, k) # Nil /\ DoInsert(k, v)

UpsertSpec == Init /\ [][UpsertStep]_vars

\* Inserts, Get, and Delete on the handle Get returned (nil for an absent key) or on the
\* tree itself.
NoTargetStep ==
  \/ \E k \in Keys : DoInsert(k, -k)
  \/ \E k \in Keys : DoGet(k)
  \/ DoDelete
  \/ DoDeleteTree

NoTargetSpec == Init /\ [][NoTargetStep]_vars

\* Trees built by Inserts alone (key k with value -k, as the tests insert them), and
\* Get, Next and Prev on them; none of the three reads a value.
NavStep ==
  \/ \E k \in Keys : DoInsert(k, -k)
  \/ \E k \in Keys : DoGet(k)
  \/ DoNext
  \/ DoPrev

NavSpec == Init /\ [][NavStep]_vars

\* The streams over the trees that Insert and Get-then-Delete build; the tests insert
\* key k with value -k, and neither stream reads a value.
StreamStep ==
  \/ \E k \in Keys : DoInsert(k, -k)
  \/ \E k \in Keys : DoGetDelete(k)
  \/ StartKeys
  \/ StartCheck
  \/ ProducerRun
  \/ Handoff
  \/ ObserveCancel
  \/ Cancel
  \/ Finish

StreamSpec == Init /\ [][StreamStep]_vars

\* The streams over the trees of the Delete test: built by Inserts and at most one
\* Get-then-Delete.
OneDeleteStep ==
  \/ \E k \in Keys : DoInsert(k, -k)
  \/ \E k \in Keys : nDel = 0 /\ DoGetDelete(k)
  \/ StartKeys
  \/ StartCheck
  \/ ProducerRun
  \/ Handoff
  \/ ObserveCancel
  \/ Cancel
  \/ Finish

OneDeleteSpec == Init /\ [][OneDeleteStep]_vars

\* Check streams, never cancelled, over the deeper trees that Insert and Get-then-Delete
\* build.
DeepCheckStep ==
  \/ \E k \in DeepKeys : DoInsertDeep(k)
  \/ \E k \in DeepKeys : DoGetDelete(k)
  \/ StartCheck
  \/ ProducerRun
  \/ Handoff
  \/ Finish

DeepCheckSpec == Init /\ [][DeepCheckStep]_vars

\* Direct Visit calls over the trees that Insert and Get-then-Delete build; the tree is
\* left alone while the result of a Visit call is under inspection.
VisitStep ==
  \/ \E k \in Keys : ~vres.called /\ DoInsert(k, -k)
  \/ \E k \in Keys : ~vres.called /\ DoGetDelete(k)
  \/ \E at \in 0..(MaxNodes + 1), e \in Errs : DoVisit(at, e)
  \/ DropVisit

VisitSpec == Init /\ [][VisitStep]_vars

\* The Go scheduler runs a runnable goroutine: the producer's own steps are weakly
\* fair.  Nothing obliges the consumer to receive (Handoff) or to cancel.
FairStreamSpec ==
  StreamSpec /\ WF_vars(ProducerRun) /\ WF_vars(ObserveCancel)

\* ------------------------------------------------------------ vocabulary of the claims
\* The nodes reachable from the nodes of S through child links.
RECURSIVE Closure(_, _)
Closure(h, S) ==
  LET T == S \cup ({h[n].Child[s] : n \in S, s \in Sides} \ {Nil})
  IN  IF T = S THEN S ELSE Closure(h, T)

\* The subtree under pointer n (empty for nil).
Subtree(h, n) == IF n = Nil THEN {} ELSE Closure(h, {n})

\* The non-sentinel nodes reachable from the sentinel.
InTree(h) == Closure(h, {sentinel}) \ {sentinel}

TreeKeys(h) == {h[n].Key : n \in InTree(h)}

SubtreeOrder(h) ==
  \A n \in InTree(h) :
    /\ \A m \in Subtree(h, h[n].Child[lo]) : h[m].Key < h[n].Key
    /\ \A m \in Subtree(h, h[n].Child[hi]) : h[m].Key > h[n].Key

ParentLinks(h) ==
  \A n \in Closure(h, {sentinel}) : \A s \in Sides :
    h[n].Child[s] # Nil => h[h[n].Child[s]].Parent = n

\* The value Get finds for key k, 0 when Get returns nil.
Lookup(h, k) ==
  LET n == Get(h, sentinel, k) IN IF n = Nil THEN 0 ELSE h[n].Value

\* ------------------------------------------------------------ claims
\* C1: after any Inserts and Deletes on handles from Get, every key in the lo subtree of
\* a node of the tree is smaller than the node's key and every key in its hi subtree
\* is greater.
C1_SubtreeOrder == ~misused => SubtreeOrder(heap)

\* C2: after every Insert and Delete (on handles from Get), a child of a node of the
\* tree has that node as its Parent.
C2_ParentLinks == ~misused => ParentLinks(heap)

\* C3: in a tree built by Inserts alone, Get(k) returns a node with key k and the value
\* last inserted for k, and nil for a key never inserted.
C3_InsertGet ==
  nDel = 0 =>
    \A k \in Keys :
      LET n == Get(heap, sentinel, k)
      IN  IF shadow[k] = 0 THEN n = Nil
          ELSE n # Nil /\ heap[n].Key = k /\ heap[n].Value = shadow[k]

\* C3's case: a tree of several nodes built by Inserts, with a key never inserted, and
\* Get has returned the node of a key whose last inserted value is the largest one.
C3_Witness ==
  /\ nDel = 0
  /\ Cardinality(InTree(heap)) >= 3
  /\ handle # Nil
  /\ hsrc = "get"
  /\ \E k \in Keys : shadow[k] = 0
  /\ \E k \in Keys : shadow[k] = MaxVal /\ heap[handle].Key = k

\* C4: Delete on the node Get returned for a present key removes exactly that key: Get
\* of it is nil afterwards and every other key keeps its value.
C4_DeleteRemovesKey ==
  [][(DoDelete /\ handle # Nil /\ hsrc = "get") =>
       /\ Get(heap', sentinel, heap[handle].Key) = Nil
       /\ \A k \in Keys \ {heap[handle].Key} : Lookup(heap', k) = Lookup(heap, k)]_vars

\* C5: a second Delete on a handle whose node an earlier Delete detached is a no-op: no
\* panic, and the heap is as before.
C5_SecondDeleteNoOp ==
  [][(DoDelete /\ handle # Nil /\ hsrc = "deleted" /\ handle \notin InTree(heap)) =>
       (~fault' /\ heap' = heap)]_vars

\* The node of the tree with the smallest key greater than n's, Nil when there is none.
Successor(h, n) ==
  LET bigger == {m \in InTree(h) : h[m].Key > h[n].Key}
  IN  IF bigger = {} THEN Nil
      ELSE CHOOSE m \in bigger : \A x \in bigger : h[m].Key <= h[x].Key

Ascending(q) == \A i \in 1..(Len(q) - 1) : q[i] < q[i + 1]

Range(q) == {q[i] : i \in 1..Len(q)}

\* C6: in a tree built by Inserts, Next() on the node of key k returns the node of the
\* smallest key greater than k, and nil on the node of the largest key.
C6_NextIsSuccessor ==
  nDel = 0 => \A n \in InTree(heap) : BasicNext(heap, n) = Successor(heap, n)

\* C6's case: Next() has returned nil on a tree of several nodes built by Inserts, and
\* some node of it has a Next that is not its parent.
C6_Witness ==
  /\ nDel = 0
  /\ hsrc = "next"
  /\ handle = Nil
  /\ Cardinality(InTree(heap)) >= 3
  /\ \E n \in InTree(heap) :
        BasicNext(heap, n) \notin {Nil, heap[n].Parent} \cup Subtree(heap, n)

\* C7: over a tree built by Inserts, a Keys stream that is never cancelled and is
\* received to the close of the channel has delivered every key of the tree exactly
\* once, in ascending order.
C7_KeysInOrder ==
  (skind = "Keys" /\ ppc = "done" /\ ~cancelled /\ nDel = 0) =>
    /\ Ascending(received)
    /\ Range(received) = TreeKeys(heap)
    /\ Len(received) = Cardinality(InTree(heap))

\* C7's case: an uncancelled Keys stream of a tree of several nodes has closed.
C7_Witness ==
  /\ skind = "Keys"
  /\ ppc = "done"
  /\ ~cancelled
  /\ nDel = 0
  /\ Len(received) >= 3

\* C8: once the consumer of a Keys stream has received a prefix and then cancelled, no
\* further key is delivered, even if the consumer keeps receiving.
C8_NoKeyAfterCancel ==
  [][(skind = "Keys" /\ cancelled /\ cancelAt >= 1 /\ skind' = "Keys") =>
       received' = received]_vars

\* C9: once the context of a Keys or Check stream is cancelled, the producer ends and
\* closes the channel, also when the consumer never receives again.
C9_CancelCloses == (skind # "none" /\ cancelled) ~> (ppc = "done")

\* C9's case: a cancelled Keys stream has closed with keys of the tree undelivered.
C9_Witness ==
  /\ skind = "Keys"
  /\ cancelled
  /\ ppc = "done"
  /\ Len(received) >= 1
  /\ Len(received) < Cardinality(InTree(heap))

\* C10: after Inserts, and after one Delete of a node from Get, a Check stream received
\* to the close with an uncancelled context has yielded no node.
C10_CheckClean ==
  (skind = "Check" /\ ppc = "done" /\ ~cancelled /\ nDel <= 1) => received = <<>>

\* C10's case: an uncancelled Check stream has closed on a tree of several nodes from
\* which a node with two children was deleted.
C10_Witness ==
  /\ skind = "Check"
  /\ ppc = "done"
  /\ ~cancelled
  /\ nDel = 1
  /\ Cardinality(InTree(heap)) = MaxNodes - 1
  /\ Len(heap) = MaxNodes + 1

\* C11: an Insert of a key already present (a DoInsert step; the history then records
\* its value for the key) allocates no node and changes no Parent,
\* Child or Key of any node, so the nodes reachable from the sentinel are the same;
\* exactly one node of the tree holds the key, with the value of this Insert, and every
\* node with another key keeps its value.
C11_InsertPresentKey ==
  [][\A k \in Keys, v \in Vals :
       (Get(heap, sentinel, k) # Nil /\ shadow'[k] = v /\ DoInsert(k, v)) =>
         /\ Len(heap') = Len(heap)
         /\ InTree(heap') = InTree(heap)
         /\ \A n \in 1..Len(heap) :
               /\ heap'[n].Parent = heap[n].Parent
               /\ heap'[n].Child = heap[n].Child
               /\ heap'[n].Key = heap[n].Key
               /\ heap[n].Key # k => heap'[n].Value = heap[n].Value
         /\ Cardinality({n \in InTree(heap') : heap'[n].Key = k}) = 1
         /\ \A n \in InTree(heap') : heap'[n].Key = k => heap'[n].Value = v]_vars

\* C11's case: in a tree of several nodes whose keys were all first inserted with value 1,
\* a second Insert of a key has left another value in its node.
C11_Witness ==
  /\ nDel = 0
  /\ Cardinality(InTree(heap)) >= 3
  /\ \E n \in InTree(heap) : heap[n].Value = MaxVal /\ heap[n].Value # 1
  /\ \E n \in InTree(heap) : heap[n].Value = 1

\* C12: Delete on a nil handle or on the sentinel does not panic and leaves every node,
\* key, value and link as it was.
C12_DeleteNoTarget ==
  [][((DoDelete /\ handle = Nil) \/ DoDeleteTree) => (~fault' /\ heap' = heap)]_vars

\* C12's case: Delete has been invoked on the sentinel of a tree of several nodes, every
\* Delete so far had no target, and all allocated nodes are still in the tree.
C12_Witness ==
  /\ handle = sentinel
  /\ hsrc = "deleted"
  /\ nDel = MaxDeletes
  /\ ~fault
  /\ Cardinality(InTree(heap)) >= 3
  /\ Cardinality(InTree(heap)) = Len(heap) - 1

\* r is the node of the tree holding the smallest key greater than (d = hi) or the
\* largest key smaller than (d = lo) the key of n, or Nil when the tree has no such key.
IsNeighbour(h, n, d, r) ==
  LET beyond == {m \in InTree(h) :
                   IF d = hi THEN h[m].Key > h[n].Key ELSE h[m].Key < h[n].Key}
  IN  IF beyond = {} THEN r = Nil
      ELSE /\ r \in beyond
           /\ \A m \in beyond :
                 IF d = hi THEN h[r].Key <= h[m].Key ELSE h[r].Key >= h[m].Key

\* C13: after any Inserts and Deletes on handles from Get, Next() and Prev() on a node
\* of the tree return the node of the tree with the nearest greater, respectively
\* smaller, key, or nil when there is none; never a detached node.
C13_NextPrevInTree ==
  ~misused =>
    \A n \in InTree(heap) :
      /\ IsNeighbour(heap, n, hi, Next(heap, n))
      /\ IsNeighbour(heap, n, lo, Prev(heap, n))

\* C14: in a tree built by Inserts, Prev() on the node of key k returns the node of the
\* largest key smaller than k; on the node of the minimum key the walk up goes through
\* the root to the sentinel and Prev() returns nil, not the sentinel.
C14_PrevIsPredecessor ==
  nDel = 0 =>
    \A n \in InTree(heap) :
      /\ IsNeighbour(heap, n, lo, Prev(heap, n))
      /\ (\A m \in InTree(heap) : heap[n].Key <= heap[m].Key) =>
           /\ Ascend(heap, n, lo) = sentinel
           /\ Prev(heap, n) = Nil

\* C14's case: Prev() has returned nil on a tree of several nodes built by Inserts whose
\* minimum is below the root, and some node of it has a Prev that is neither its parent
\* nor in its subtree.
C14_Witness ==
  /\ nDel = 0
  /\ hsrc = "prev"
  /\ handle = Nil
  /\ Cardinality(InTree(heap)) >= 3
  /\ heap[heap[sentinel].Child[lo]].Child[lo] # Nil
  /\ \E n \in InTree(heap) :
        Prev(heap, n) \notin {Nil, heap[n].Parent} \cup Subtree(heap, n)

\* C15: Delete on a node with both children leaves the node where it is (same Parent,
\* still in the tree, same lo child, and the same hi child unless that child is the
\* successor itself, whose hi child then takes the slot), gives it the key and value of
\* the leftmost node of its hi subtree and detaches exactly that node: the tree has one
\* node less and Get finds the successor's key with its value.
C15_DeleteTwoChildren ==
  [][(/\ DoDelete
      /\ handle # Nil
      /\ hsrc = "get"
      /\ heap[handle].Child[lo] # Nil
      /\ heap[handle].Child[hi] # Nil) =>
       LET n == handle
           cur == Descend(heap, heap[n].Child[hi], lo)
       IN  /\ ~fault'
           /\ n \in InTree(heap')
           /\ heap'[n].Parent = heap[n].Parent
           /\ heap'[n].Child[lo] = heap[n].Child[lo]
           /\ heap'[n].Child[hi] = IF cur = heap[n].Child[hi] THEN heap[cur].Child[hi]
                                   ELSE heap[n].Child[hi]
           /\ heap'[n].Key = heap[cur].Key
           /\ heap'[n].Value = heap[cur].Value
           /\ InTree(heap') = InTree(heap) \ {cur}
           /\ Cardinality(InTree(heap')) = Cardinality(InTree(heap)) - 1
           /\ Get(heap', sentinel, heap[cur].Key) = n
           /\ Lookup(heap', heap[cur].Key) = heap[cur].Value]_vars

\* C16: whenever a Check stream received to the close with an uncancelled context has
\* yielded no node, the tree (built by any Inserts and Deletes) satisfies the subtree
\* order: every key of a node's lo subtree is smaller, every key of its hi subtree
\* greater.
C16_CheckSound ==
  (skind = "Check" /\ ppc = "done" /\ ~cancelled /\ received = <<>>) =>
    SubtreeOrder(heap)

\* C17: after any Inserts and Deletes on handles from Get, which() on a node of the tree
\* is lo or hi and is the slot in which the node's parent in the tree holds it; it is
\* never -1, and Delete has not indexed a Child array with -1.
C17_WhichNamesSlot ==
  ~misused =>
    /\ ~fault
    /\ \A n \in InTree(heap) :
          /\ which(heap, n) \in Sides
          /\ \E p \in Closure(heap, {sentinel}) : heap[p].Child[which(heap, n)] = n

\* Node m comes before node x in the in-order of the tree: it is in x's lo subtree, or
\* x is in the hi subtree of a node that is m or has m in its lo subtree.
Precedes(h, m, x) ==
  \/ m \in Subtree(h, h[x].Child[lo])
  \/ \E a \in InTree(h) :
        /\ x \in Subtree(h, h[a].Child[hi])
        /\ m = a \/ m \in Subtree(h, h[a].Child[lo])

\* C18: Visit calls the callback on nodes of the tree only, never on the sentinel and
\* never twice on a node, after every node of the node's lo subtree and before every
\* node of its hi subtree.  With a callback that never fails it is called on every node
\* and Visit returns nil; when it fails at a node it has been called on exactly the
\* nodes up to that one, on no later node, and Visit returns the callback's error.
C18_VisitInOrder ==
  vres.called =>
    LET c == vres.calls
        T == InTree(heap)
    IN  /\ Range(c) \subseteq T
        /\ \A i, j \in 1..Len(c) : i # j => c[i] # c[j]
        /\ \A i, j \in 1..Len(c) : Precedes(heap, c[i], c[j]) => i < j
        /\ IF vres.at \in T
           THEN /\ Range(c) = {vres.at} \cup {m \in T : Precedes(heap, m, vres.at)}
                /\ c[Len(c)] = vres.at
                /\ vres.err = vres.e
           ELSE /\ Range(c) = T
                /\ vres.err = NoErr

\* C18's case: on a tree of several nodes the callback has failed, with the second error,
\* at a node reached by the Visit of a lo child, after at least one call and with nodes
\* left unvisited.
C18_Witness ==
  /\ vres.called
  /\ vres.err = MaxErr
  /\ Len(vres.calls) >= 2
  /\ Len(vres.calls) < Cardinality(InTree(heap))
  /\ \E a \in InTree(heap) : vres.at \in Subtree(heap, heap[a].Child[lo])

\* The nodes reachable from the sentinel form one tree hanging under the sentinel's lo
\* slot: the hi slot of the sentinel is empty, no child slot holds the sentinel, every
\* other reachable node is held by exactly one child slot of a reachable node, and no
\* node is in the subtree of one of its own children.
SingleTree(h) ==
  LET R == Closure(h, {sentinel})
  IN  /\ h[sentinel].Child[hi] = Nil
      /\ \A p \in R : \A s \in Sides : h[p].Child[s] # sentinel
      /\ \A n \in R \ {sentinel} :
            Cardinality({ps \in R \X Sides : h[ps[1]].Child[ps[2]] = n}) = 1
      /\ \A n \in R :
            n \notin Subtree(h, h[n].Child[lo]) \cup Subtree(h, h[n].Child[hi])

\* C19: after any Inserts and Deletes the nodes reachable from the sentinel through child
\* links form a single tree: no node is reachable by two child paths, no node is its
\* own descendant, and the sentinel's hi slot is empty.
C19_SingleTree == SingleTree(heap)

\* C19's case: after the last allowed Delete the tree still has several nodes, a node
\* is detached, and a node of the tree has a Parent that is not the node holding it.
C19_Witness ==
  /\ nDel = MaxDeletes
  /\ ~fault
  /\ Cardinality(InTree(heap)) >= 2
  /\ Cardinality(InTree(heap)) < Len(heap) - 1
  /\ ~ParentLinks(heap)

=============================================================================
